---- MODULE Spec2Model ----
(***************************************************************************)
(* export-github-as-portfolio.py: the portfolio generator.                 *)
(*                                                                         *)
(* Text is a sequence of one-character strings.  Lengths on a page are in  *)
(* half millimetres (the calendar uses 3.5 mm steps), so every length is   *)
(* an integer: cell(0, 10, ...) is 20 high, ln(5) moves the cursor by 10.  *)
(***************************************************************************)
EXTENDS Integers, Sequences, FiniteSets, TLC

Min(S) == CHOOSE x \in S : \A y \in S : x <= y

RECURSIVE Concat(_)
Concat(ss) == IF ss = <<>> THEN <<>> ELSE Head(ss) \o Concat(Tail(ss))

Range(s) == {s[i] : i \in DOMAIN s}

(***************************************************************************)
(* Python str methods used by the program.                                 *)
(***************************************************************************)
\* The backtick character (a TLA+ string cannot hold one).
BackTick == "BACKTICK"

Whitespace == {" ", "\t", "\r"}
DigitChars == {"0", "1", "2", "3", "4", "5", "6", "7", "8", "9"}

RECURSIVE lstrip(_)
lstrip(s) == IF s # <<>> /\ Head(s) \in Whitespace THEN lstrip(Tail(s)) ELSE s

RECURSIVE rstrip(_)
rstrip(s) ==
    IF s # <<>> /\ s[Len(s)] \in Whitespace
    THEN rstrip(SubSeq(s, 1, Len(s) - 1))
    ELSE s

strip(s) == rstrip(lstrip(s))

startswith(s, prefix) ==
    Len(s) >= Len(prefix) /\ SubSeq(s, 1, Len(prefix)) = prefix

\* readme.split('\n')
RECURSIVE split(_, _)
split(s, sep) ==
    LET hits == {p \in 1..Len(s) : s[p] = sep}
    IN  IF hits = {} THEN <<s>>
        ELSE LET p == Min(hits)
             IN  <<SubSeq(s, 1, p - 1)>> \o split(SubSeq(s, p + 1, Len(s)), sep)

\* the number of leading characters of s that are in set S
RECURSIVE LeadCount(_, _)
LeadCount(s, S) ==
    IF s # <<>> /\ Head(s) \in S THEN 1 + LeadCount(Tail(s), S) ELSE 0

(***************************************************************************)
(* latex_to_unicode (lines 74-115).  parse_latex and pretty are sympy's;   *)
(* when they raise, the snippet goes through the substitutions below.      *)
(***************************************************************************)
Letters ==
    {"a", "b", "c", "d", "e", "f", "g", "h", "i", "j", "k", "l", "m", "n",
     "o", "p", "q", "r", "s", "t", "u", "v", "w", "x", "y", "z",
     "A", "B", "C", "D", "E", "F", "G", "H", "I", "J", "K", "L", "M", "N",
     "O", "P", "Q", "R", "S", "T", "U", "V", "W", "X", "Y", "Z"}

\* [a-zA-Z0-9]
AlphaNum == Letters \cup DigitChars

\* lines 80-94, in the order the dict holds them
symbols ==
  <<
    <<<<"\\", "a", "l", "p", "h", "a">>, <<"a">>>>,
    <<<<"\\", "b", "e", "t", "a">>, <<"b">>>>,
    <<<<"\\", "g", "a", "m", "m", "a">>, <<"g">>>>,
    <<<<"\\", "d", "e", "l", "t", "a">>, <<"d">>>>,
    <<<<"\\", "e", "p", "s", "i", "l", "o", "n">>, <<"e">>>>,
    <<<<"\\", "z", "e", "t", "a">>, <<"z">>>>,
    <<<<"\\", "e", "t", "a">>, <<"n">>>>,
    <<<<"\\", "t", "h", "e", "t", "a">>, <<"t", "h">>>>,
    <<<<"\\", "i", "o", "t", "a">>, <<"i">>>>,
    <<<<"\\", "k", "a", "p", "p", "a">>, <<"k">>>>,
    <<<<"\\", "l", "a", "m", "b", "d", "a">>, <<"l">>>>,
    <<<<"\\", "m", "u">>, <<"m">>>>,
    <<<<"\\", "n", "u">>, <<"v">>>>,
    <<<<"\\", "x", "i">>, <<"x">>>>,
    <<<<"\\", "p", "i">>, <<"p">>>>,
    <<<<"\\", "r", "h", "o">>, <<"r">>>>,
    <<<<"\\", "s", "i", "g", "m", "a">>, <<"s">>>>,
    <<<<"\\", "t", "a", "u">>, <<"t">>>>,
    <<<<"\\", "u", "p", "s", "i", "l", "o", "n">>, <<"u">>>>,
    <<<<"\\", "p", "h", "i">>, <<"p", "h">>>>,
    <<<<"\\", "c", "h", "i">>, <<"c", "h">>>>,
    <<<<"\\", "p", "s", "i">>, <<"p", "s">>>>,
    <<<<"\\", "o", "m", "e", "g", "a">>, <<"o">>>>,
    <<<<"\\", "G", "a", "m", "m", "a">>, <<"G">>>>,
    <<<<"\\", "D", "e", "l", "t", "a">>, <<"D">>>>,
    <<<<"\\", "T", "h", "e", "t", "a">>, <<"T", "h">>>>,
    <<<<"\\", "L", "a", "m", "b", "d", "a">>, <<"L">>>>,
    <<<<"\\", "X", "i">>, <<"X">>>>,
    <<<<"\\", "P", "i">>, <<"P">>>>,
    <<<<"\\", "S", "i", "g", "m", "a">>, <<"S">>>>,
    <<<<"\\", "U", "p", "s", "i", "l", "o", "n">>, <<"U">>>>,
    <<<<"\\", "P", "h", "i">>, <<"P", "h">>>>,
    <<<<"\\", "P", "s", "i">>, <<"P", "s">>>>,
    <<<<"\\", "O", "m", "e", "g", "a">>, <<"O">>>>,
    <<<<"\\", "i", "n", "f", "t", "y">>, <<"i", "n", "f">>>>,
    <<<<"\\", "p", "m">>, <<"+", "/", "-">>>>,
    <<<<"\\", "m", "p">>, <<"-", "/", "+">>>>,
    <<<<"\\", "t", "i", "m", "e", "s">>, <<"x">>>>,
    <<<<"\\", "d", "i", "v">>, <<"/">>>>,
    <<<<"\\", "l", "e", "q">>, <<"<", "=">>>>,
    <<<<"\\", "g", "e", "q">>, <<">", "=">>>>,
    <<<<"\\", "n", "e", "q">>, <<"!", "=">>>>,
    <<<<"\\", "a", "p", "p", "r", "o", "x">>, <<"~">>>>,
    <<<<"\\", "e", "q", "u", "i", "v">>, <<"=", "=">>>>,
    <<<<"\\", "i", "n", "t">>, <<"i", "n", "t">>>>,
    <<<<"\\", "s", "u", "m">>, <<"s", "u", "m">>>>,
    <<<<"\\", "p", "r", "o", "d">>, <<"p", "r", "o", "d">>>>,
    <<<<"\\", "s", "q", "r", "t">>, <<"s", "q", "r", "t">>>>,
    <<<<"\\", "p", "a", "r", "t", "i", "a", "l">>, <<"d">>>>
  >>

\* the positions at which old occurs in s
Occurrences(s, old) ==
    {p \in 1..(Len(s) - Len(old) + 1) : SubSeq(s, p, p + Len(old) - 1) = old}

\* str.replace(old, new): every occurrence of old, found left to right, the
\* search going on after the occurrence replaced
RECURSIVE replace(_, _, _)
replace(s, old, new) ==
    IF Occurrences(s, old) = {} THEN s
    ELSE LET p == Min(Occurrences(s, old))
         IN  SubSeq(s, 1, p - 1) \o new
               \o replace(SubSeq(s, p + Len(old), Len(s)), old, new)

\* lines 95-96: the keys from the k-th on (a key that does not occur
\* leaves the string as it is)
RECURSIVE ReplaceSymbols(_, _)
ReplaceSymbols(tex, k) ==
    IF k > Len(symbols) THEN tex
    ELSE IF Occurrences(tex, symbols[k][1]) = {}
    THEN ReplaceSymbols(tex, k + 1)
    ELSE ReplaceSymbols(replace(tex, symbols[k][1], symbols[k][2]), k + 1)

to_sup(s) == <<"^">> \o s

to_sub(s) == <<"_">> \o s

\* ([^{}]+) at position p: how many characters it takes
RECURSIVE GroupLen(_, _)
GroupLen(s, p) ==
    IF p <= Len(s) /\ s[p] \notin {"{", "}"} THEN 1 + GroupLen(s, p + 1) ELSE 0

\* {([^{}]+)} at position p: the length of the group, 0 when there is no
\* match
Braced(s, p) ==
    LET n == GroupLen(s, p + 1)
    IN  IF /\ p <= Len(s)
           /\ s[p] = "{"
           /\ n >= 1
           /\ p + 1 + n <= Len(s)
           /\ s[p + 1 + n] = "}"
        THEN n ELSE 0

\* re.sub(c{([^{}]+)}, ...) of lines 102 and 109, c being ^ or _: the
\* matches from left to right, each replaced by c and the group
RECURSIVE SubBraced(_, _)
SubBraced(s, c) ==
    LET hits == {p \in 1..Len(s) : s[p] = c /\ Braced(s, p + 1) >= 1}
    IN  IF hits = {} THEN s
        ELSE LET p == Min(hits)
                 n == Braced(s, p + 1)
                 group == SubSeq(s, p + 2, p + 1 + n)
             IN  SubSeq(s, 1, p - 1)
                   \o (IF c = "^" THEN to_sup(group) ELSE to_sub(group))
                   \o SubBraced(SubSeq(s, p + 3 + n, Len(s)), c)

\* re.sub(c([a-zA-Z0-9]), ...) of lines 103 and 110
RECURSIVE SubChar(_, _)
SubChar(s, c) ==
    LET hits == {p \in 1..(Len(s) - 1) : s[p] = c /\ s[p + 1] \in AlphaNum}
    IN  IF hits = {} THEN s
        ELSE LET p == Min(hits)
                 group == <<s[p + 1]>>
             IN  SubSeq(s, 1, p - 1)
                   \o (IF c = "^" THEN to_sup(group) ELSE to_sub(group))
                   \o SubChar(SubSeq(s, p + 2, Len(s)), c)

FracHead == <<"\\", "f", "r", "a", "c">>

\* \\frac{([^{}]+)}{([^{}]+)} at position p
FracAt(s, p) ==
    /\ SubSeq(s, p, p + 4) = FracHead
    /\ Braced(s, p + 5) >= 1
    /\ Braced(s, p + 7 + Braced(s, p + 5)) >= 1

\* line 113: \frac{a}{b} becomes a/b
RECURSIVE SubFrac(_)
SubFrac(s) ==
    LET hits == {p \in 1..(Len(s) - 4) : FracAt(s, p)}
    IN  IF hits = {} THEN s
        ELSE LET p == Min(hits)
                 n1 == Braced(s, p + 5)
                 n2 == Braced(s, p + 7 + n1)
             IN  SubSeq(s, 1, p - 1)
                   \o SubSeq(s, p + 6, p + 5 + n1) \o <<"/">>
                   \o SubSeq(s, p + 8 + n1, p + 7 + n1 + n2)
                   \o SubFrac(SubSeq(s, p + 9 + n1 + n2, Len(s)))

\* lines 79-115: the except branch
Fallback(tex) ==
    LET t1 == ReplaceSymbols(tex, 1)
        t2 == SubBraced(t1, "^")
        t3 == SubChar(t2, "^")
        t4 == SubBraced(t3, "_")
        t5 == SubChar(t4, "_")
    IN  SubFrac(t5)

\* lines 74-115.  What parse_latex accepts and what pretty prints is
\* sympy's business: parsed says which way the call went, and text is the
\* result only when it went through the except branch.
latex_to_unicode(tex, parsed) ==
    [tex |-> tex, parsed |-> parsed,
     text |-> IF parsed THEN <<>> ELSE Fallback(tex)]

(***************************************************************************)
(* process_inline: three nested re.split calls.  A split with one          *)
(* capturing group returns outside, inside, outside, ... segments.         *)
(***************************************************************************)
\* re.split(r'\$([^$]+)\$', s) with d = "$", and the code-span split of line
\* 170 with d = BackTick: the leftmost d that is followed by at least one
\* non-d character and then a d.
RECURSIVE SplitSpan(_, _)
SplitSpan(s, d) ==
    LET opens == {p \in 1..Len(s) :
                    /\ s[p] = d
                    /\ p + 1 <= Len(s)
                    /\ s[p + 1] # d
                    /\ \E q \in (p + 2)..Len(s) : s[q] = d}
    IN  IF opens = {} THEN <<s>>
        ELSE LET p == Min(opens)
                 q == Min({q \in (p + 2)..Len(s) : s[q] = d})
             IN  <<SubSeq(s, 1, p - 1), SubSeq(s, p + 1, q - 1)>>
                   \o SplitSpan(SubSeq(s, q + 1, Len(s)), d)

\* re.split(r'\*\*(.*?)\*\*', s): the leftmost "**", then the nearest "**".
RECURSIVE SplitBold(_)
SplitBold(s) ==
    LET Stars(p) == p + 1 <= Len(s) /\ s[p] = "*" /\ s[p + 1] = "*"
        opens == {p \in 1..Len(s) :
                    Stars(p) /\ \E q \in (p + 2)..Len(s) : Stars(q)}
    IN  IF opens = {} THEN <<s>>
        ELSE LET p == Min(opens)
                 q == Min({q \in (p + 2)..Len(s) : Stars(q)})
             IN  <<SubSeq(s, 1, p - 1), SubSeq(s, p + 2, q - 1)>>
                   \o SplitBold(SubSeq(s, q + 2, Len(s)))

\* A run is one multi_cell call: the font set before it and the text given.
\* A math run's text is the snippet handed to latex_to_unicode.
Run(style, text) == [style |-> style, text |-> text]

\* lines 177-184: odd Python indexes (even here) are bold; empty parts are
\* skipped
BoldRuns(cpart) ==
    LET bold_parts == SplitBold(cpart)
    IN  Concat([b \in 1..Len(bold_parts) |->
                  IF bold_parts[b] = <<>> THEN <<>>
                  ELSE <<Run(IF b % 2 = 0 THEN "bold" ELSE "plain",
                             bold_parts[b])>>])

\* lines 170-175
CodeRuns(mpart) ==
    LET code_parts == SplitSpan(mpart, BackTick)
    IN  Concat([c \in 1..Len(code_parts) |->
                  IF c % 2 = 0 THEN <<Run("code", code_parts[c])>>
                  ELSE BoldRuns(code_parts[c])])

process_inline(text) ==
    LET math_parts == SplitSpan(text, "$")
    IN  Concat([m \in 1..Len(math_parts) |->
                  IF m % 2 = 0 THEN <<Run("math", math_parts[m])>>
                  ELSE CodeRuns(math_parts[m])])

(***************************************************************************)
(* The page writer: an FPDF object is its page number and the vertical     *)
(* cursor.  The calls the program makes are queued as operations and take  *)
(* effect one at a time.                                                   *)
(***************************************************************************)
\* FPDF's top margin, 10 mm
TopMargin == 20

\* The cursor position past which a cell starts a new page (FPDF: page
\* height less the bottom margin, 277 mm on A4).  The model's page is short,
\* so that a table of contents of a few rows and a section of a few lines
\* run over it.
PageBreakTrigger == 68

\* PDF(): no page yet
PDF == [page |-> 0, y |-> TopMargin]

page_no(pdf) == pdf.page

add_page(pdf) == [page |-> pdf.page + 1, y |-> TopMargin]

\* a cell that ends exactly on the trigger breaks the page too
will_page_break_at_limit(pdf, h) == pdf.y + h >= PageBreakTrigger

will_page_break(pdf, h) == pdf.y + h > PageBreakTrigger

\* cell(w, h, ...): starts a new page when the cell does not fit; the cursor
\* stays on the cell's line
cell(pdf, h) == IF will_page_break(pdf, h) THEN add_page(pdf) ELSE pdf

ln(pdf, h) == [pdf EXCEPT !.y = @ + h]

\* one physical line of multi_cell(0, h, ...): a cell, then the next line
multi_cell_line(pdf, h) == ln(cell(pdf, h), h)

Op(op, h) == [op |-> op, h |-> h, mark |-> 0]

\* the heading cell of section k
HeadingOp(h, k) == [op |-> "cell", h |-> h, mark |-> k]

Exec(pdf, o) ==
    CASE o.op = "cell" -> cell(pdf, o.h)
      [] o.op = "multi_cell" -> multi_cell_line(pdf, o.h)
      [] o.op = "ln" -> ln(pdf, o.h)
      [] o.op = "set_y" -> ln(pdf, o.h)
      [] o.op = "add_page" -> add_page(pdf)

\* The texts of the model are shorter than a line of the page: a multi_cell
\* of a run or of a code line is one physical line.  A description may be
\* longer: its line count is part of the repository record.
multi_cell(h, nlines) == [k \in 1..nlines |-> Op("multi_cell", h)]

(***************************************************************************)
(* process_readme_line (lines 117-159): the new in_code_block flag, the    *)
(* block emitted and the page writer calls made for it.                    *)
(***************************************************************************)
NoBlock == [kind |-> "none"]

RunOps(runs) == [k \in 1..Len(runs) |-> Op("multi_cell", 10)]

\* line 118
IsFenceLine(line) == startswith(strip(line), <<BackTick, BackTick, BackTick>>)

\* re.match(r'([-*+])\s+(.*)', stripped_line)
ul_match(s) == Len(s) >= 2 /\ s[1] \in {"-", "*", "+"} /\ s[2] \in Whitespace

\* re.match(r'(\d+)\.\s+(.*)', stripped_line)
ol_match(s) ==
    LET n == LeadCount(s, DigitChars)
    IN  n >= 1 /\ Len(s) >= n + 2 /\ s[n + 1] = "." /\ s[n + 2] \in Whitespace

\* re.match(r'^(#{1,6})\s+(.*)', stripped_line)
header_match(s) ==
    LET n == LeadCount(s, {"#"})
    IN  n >= 1 /\ n <= 6 /\ Len(s) >= n + 1 /\ s[n + 1] \in Whitespace

\* max(16 - level * 2, 10)
HeaderSize(level) == IF 16 - level * 2 > 10 THEN 16 - level * 2 ELSE 10

\* a fence line always opens a block
FenceToggleSet(in_code_block) == TRUE

\* line 119: return not in_code_block, False
FenceToggle(in_code_block) == ~in_code_block

process_readme_line(line, in_code_block) ==
    LET stripped_line == lstrip(line)
        indent == Len(line) - Len(stripped_line)
        nd == LeadCount(stripped_line, DigitChars)
        level == LeadCount(stripped_line, {"#"})
        ul_text == lstrip(SubSeq(stripped_line, 2, Len(stripped_line)))
        ol_text == lstrip(SubSeq(stripped_line, nd + 2, Len(stripped_line)))
        header_text == lstrip(SubSeq(stripped_line, level + 1, Len(stripped_line)))
    IN  IF IsFenceLine(line)
        THEN [in_code_block |-> FenceToggle(in_code_block), block |-> NoBlock,
              ops |-> <<>>]
        ELSE IF in_code_block
        THEN [in_code_block |-> in_code_block,
              block |-> [kind |-> "code", text |-> line],
              ops |-> multi_cell(8, 1)]
        ELSE IF ul_match(stripped_line)
        THEN [in_code_block |-> in_code_block,
              block |-> [kind |-> "ul", indent |-> indent, label |-> <<"*">>,
                         runs |-> process_inline(ul_text)],
              ops |-> <<Op("cell", 10)>> \o RunOps(process_inline(ul_text))
                        \o <<Op("ln", 10)>>]
        ELSE IF ol_match(stripped_line)
        THEN [in_code_block |-> in_code_block,
              block |-> [kind |-> "ol", indent |-> indent,
                         label |-> SubSeq(stripped_line, 1, nd) \o <<".">>,
                         runs |-> process_inline(ol_text)],
              ops |-> <<Op("cell", 10)>> \o RunOps(process_inline(ol_text))
                        \o <<Op("ln", 10)>>]
        ELSE IF header_match(stripped_line)
        THEN [in_code_block |-> in_code_block,
              block |-> [kind |-> "heading", indent |-> indent, level |-> level,
                         size |-> HeaderSize(level), text |-> header_text],
              ops |-> multi_cell(HeaderSize(level) + 8, 1)]
        ELSE [in_code_block |-> in_code_block,
              block |-> [kind |-> "paragraph", indent |-> indent,
                         runs |-> process_inline(stripped_line)],
              ops |-> RunOps(process_inline(stripped_line)) \o <<Op("ln", 10)>>]

(***************************************************************************)
(* The section order (lines 188-192, 415-419, 439-443).  A repository is   *)
(* [name, stargazers_count, desc_lines]; list.sort is stable.              *)
(***************************************************************************)
\* prioritize.index(name)
index(list, name) == Min({i \in 1..Len(list) : list[i] = name})

\* list.sort(key=lambda r: prioritize.index(r["name"])): insertion after the
\* elements whose key is not greater
RECURSIVE SortByIndex(_, _)
SortByIndex(rs, prioritize) ==
    IF rs = <<>> THEN <<>>
    ELSE LET r == rs[Len(rs)]
             done == SortByIndex(SubSeq(rs, 1, Len(rs) - 1), prioritize)
             k == Cardinality({i \in 1..Len(done) :
                     index(prioritize, done[i].name) <= index(prioritize, r.name)})
         IN  SubSeq(done, 1, k) \o <<r>> \o SubSeq(done, k + 1, Len(done))

\* the sort without reverse=True
RECURSIVE SortByStarsAscending(_)
SortByStarsAscending(rs) ==
    IF rs = <<>> THEN <<>>
    ELSE LET r == rs[Len(rs)]
             done == SortByStarsAscending(SubSeq(rs, 1, Len(rs) - 1))
             k == Cardinality({i \in 1..Len(done) :
                     done[i].stargazers_count <= r.stargazers_count})
         IN  SubSeq(done, 1, k) \o <<r>> \o SubSeq(done, k + 1, Len(done))

\* list.sort(key=lambda r: r["stargazers_count"], reverse=True): equal keys
\* keep their order
RECURSIVE SortByStars(_)
SortByStars(rs) ==
    IF rs = <<>> THEN <<>>
    ELSE LET r == rs[Len(rs)]
             done == SortByStars(SubSeq(rs, 1, Len(rs) - 1))
             k == Cardinality({i \in 1..Len(done) :
                     done[i].stargazers_count >= r.stargazers_count})
         IN  SubSeq(done, 1, k) \o <<r>> \o SubSeq(done, k + 1, Len(done))

\* generate_pdf, lines 188-192
sorted_repos_pdf(rs, prio, excl) ==
    LET prio_repos == SelectSeq(rs, LAMBDA r : r.name \in Range(prio))
        other_repos == SelectSeq(rs, LAMBDA r : r.name \notin Range(prio)
                                                  /\ r.name \notin Range(excl))
    IN  SortByIndex(prio_repos, prio) \o SortByStars(other_repos)

\* generate_html, lines 415-419
sorted_repos_html(rs, prio, excl) ==
    LET prio_repos == SelectSeq(rs, LAMBDA r : r.name \in Range(prio))
        other_repos == SelectSeq(rs, LAMBDA r : r.name \notin Range(prio)
                                                  /\ r.name \notin Range(excl))
    IN  SortByIndex(prio_repos, prio) \o SortByStars(other_repos)

\* generate_md, lines 439-443
sorted_repos_md(rs, prio, excl) ==
    LET prio_repos == SelectSeq(rs, LAMBDA r : r.name \in Range(prio))
        other_repos == SelectSeq(rs, LAMBDA r : r.name \notin Range(prio)
                                                  /\ r.name \notin Range(excl))
    IN  SortByIndex(prio_repos, prio) \o SortByStars(other_repos)

(***************************************************************************)
(* fetch_readme (lines 31-39) and the GitHub API it asks.                  *)
(***************************************************************************)
None == [some |-> FALSE, text |-> <<>>]
Some(text) == [some |-> TRUE, text |-> text]

\* Python's truth value of a readme: None and "" are false
Truthy(readme) == readme.some /\ readme.text # <<>>

\* requests.get: the README of the repository with status 200, 404 when the
\* repository has none; a fault is a failing status (a rate limit, 403) or
\* an exception of the request itself
requests_get(stored, fault) ==
    CASE fault = "exception" -> [raised |-> TRUE, status_code |-> 0, text |-> <<>>]
      [] fault = "status" -> [raised |-> FALSE, status_code |-> 403, text |-> <<>>]
      [] OTHER -> IF stored.some
                  THEN [raised |-> FALSE, status_code |-> 200, text |-> stored.text]
                  ELSE [raised |-> FALSE, status_code |-> 404, text |-> <<>>]

\* lines 37-39
fetch_readme(resp) == IF resp.status_code = 200 THEN Some(resp.text) ELSE None

(***************************************************************************)
(* The state.                                                              *)
(***************************************************************************)
VARIABLES
    format,            \* --format
    repos,             \* fetch_repos' result
    prioritize,        \* --prioritize
    exclude,           \* --exclude
    contrib,           \* TRUE when the calendar was fetched (no --no-calendar)
    remote,            \* the README each repository has on the server
    faults,            \* how many more requests may fail
    pc,                \* the program's position
    pass,              \* the FPDF object written: "dry", "toc" or "final"
    sorted_repos,
    toc_entries,
    content_pdf,
    toc_pdf,
    final_pdf,
    ops,               \* the page writer calls made and not yet executed
    rel_pages,
    abs_pages,
    assumed_toc_pages,
    actual_toc_pages,
    links,             \* the handles add_link returned, in row order
    link_target,       \* final_pdf's link table: handle -> page, 0 unbound
    idx,
    row,               \* the TOC row loop's position
    repo_i,            \* the repository loop's position
    lines,             \* the README lines still to process
    in_code_block,
    output,            \* TRUE once the document is written
    out_sections,      \* the sections written to the document
    \* history, read by no action:
    toc_iters,         \* iterations of the reconciliation loop
    printed,           \* the page numbers printed in the final TOC rows
    heading_page,      \* per pass, the page each section heading was put on
    fetched,           \* per pass, what fetch_readme returned for each section
    bound,             \* per link handle, the set_link calls made
    emitted,           \* the current README: each line and the block it gave
    math_text,         \* the last README line: its latex_to_unicode calls
    last_resp          \* the last response of requests.get

vars == <<format, repos, prioritize, exclude, contrib, remote, faults, pc, pass,
          sorted_repos, toc_entries, content_pdf, toc_pdf, final_pdf, ops,
          rel_pages, abs_pages, assumed_toc_pages, actual_toc_pages, links,
          link_target, idx, row, repo_i, lines, in_code_block, output,
          out_sections, toc_iters, printed, heading_page, fetched, bound,
          emitted, math_text, last_resp>>

inputs == <<format, repos, prioritize, exclude, contrib, remote>>
pdfs == <<content_pdf, toc_pdf, final_pdf>>
tocvars == <<rel_pages, abs_pages, assumed_toc_pages, actual_toc_pages, toc_iters>>
linkvars == <<links, link_target, bound, printed>>
readmevars == <<lines, in_code_block, emitted, math_text>>

CalendarTitle == "Contribution Calendar"

CurPdf ==
    CASE pass = "dry" -> content_pdf
      [] pass = "toc" -> toc_pdf
      [] OTHER -> final_pdf

NoResp == [raised |-> FALSE, status_code |-> 0, text |-> <<>>]

\* The requests that may fail now
FaultChoices == IF faults > 0 THEN {"none", "status", "exception"} ELSE {"none"}

(***************************************************************************)
(* The initial states: the command line, the repository list and the       *)
(* READMEs on the server.                                                  *)
(***************************************************************************)
Repo(name, stars, desc_lines) ==
    [name |-> name, stargazers_count |-> stars, desc_lines |-> desc_lines]

Start(f, rs, prio, excl, cal, rem, nf) ==
    /\ format = f
    /\ repos = rs
    /\ prioritize = prio
    /\ exclude = excl
    /\ contrib = cal
    /\ remote = rem
    /\ faults = nf
    /\ pc = "start"
    /\ pass = "none"
    /\ sorted_repos = <<>>
    /\ toc_entries = <<>>
    /\ content_pdf = PDF
    /\ toc_pdf = PDF
    /\ final_pdf = PDF
    /\ ops = <<>>
    /\ rel_pages = <<>>
    /\ abs_pages = <<>>
    /\ assumed_toc_pages = 0
    /\ actual_toc_pages = 0
    /\ links = <<>>
    /\ link_target = <<>>
    /\ idx = 0
    /\ row = 0
    /\ repo_i = 0
    /\ lines = <<>>
    /\ in_code_block = FALSE
    /\ output = FALSE
    /\ out_sections = <<>>
    /\ toc_iters = 0
    /\ printed = <<>>
    /\ heading_page = [dry |-> <<>>, final |-> <<>>]
    /\ fetched = [dry |-> <<>>, final |-> <<>>]
    /\ bound = <<>>
    /\ emitted = <<>>
    /\ math_text = <<>>
    /\ last_resp = NoResp

(***************************************************************************)
(* generate_pdf: the dry-run pass and the final pass run the same section  *)
(* code on content_pdf (lines 206-271) and on final_pdf (lines 327-395).   *)
(***************************************************************************)
\* final_pdf.set_link(link, page=section_page)
set_link(table, link, page) == [table EXCEPT ![link] = page]

\* lines 188-204
GeneratePdf ==
    /\ pc = "start"
    /\ format = "pdf"
    /\ LET sr == sorted_repos_pdf(repos, prioritize, exclude)
       IN  /\ sorted_repos' = sr
           /\ toc_entries' = (IF contrib THEN <<CalendarTitle>> ELSE <<>>)
                                \o [k \in 1..Len(sr) |-> sr[k].name]
    /\ content_pdf' = add_page(PDF)
    /\ rel_pages' = <<>>
    /\ links' = <<>>
    /\ repo_i' = 1
    /\ pass' = "dry"
    /\ pc' = "calendar"
    /\ UNCHANGED <<inputs, faults, toc_pdf, final_pdf, ops, abs_pages,
                   assumed_toc_pages, actual_toc_pages, link_target, idx, row,
                   readmevars, output, out_sections, toc_iters, printed,
                   heading_page, fetched, bound, last_resp>>

\* The cursor moves of the calendar (lines 208-245): the title cell, ln(15),
\* set_y(calendar_y + 7 * 3.5 + 10) with calendar_y the cursor, ln(10).
\* text() and rect() do not move the cursor.
CalendarOps(k) ==
    <<HeadingOp(20, k), Op("ln", 30), Op("set_y", 69), Op("ln", 20)>>

\* lines 248-260: the name, the description, the link
SectionOps(repo, k) ==
    <<HeadingOp(20, k), Op("ln", 20)>> \o multi_cell(20, repo.desc_lines)
        \o <<Op("cell", 20), Op("ln", 20)>>

\* lines 206-245 and 327-367
Calendar ==
    /\ pc = "calendar"
    /\ ops = <<>>
    /\ pc' = "repo"
    /\ IF contrib
       THEN /\ ops' = CalendarOps(1)
            /\ IF pass = "dry"
               THEN /\ rel_pages' = Append(rel_pages, page_no(content_pdf))
                    /\ UNCHANGED <<link_target, bound, idx, out_sections>>
               ELSE /\ link_target' =
                          set_link(link_target, links[idx + 1], page_no(final_pdf))
                    /\ bound' = [bound EXCEPT ![links[idx + 1]] = @ + 1]
                    /\ idx' = idx + 1
                    /\ out_sections' = Append(out_sections,
                          [title |-> CalendarTitle, readme |-> FALSE])
                    /\ UNCHANGED rel_pages
       ELSE UNCHANGED <<ops, rel_pages, link_target, bound, idx, out_sections>>
    /\ UNCHANGED <<inputs, faults, pass, sorted_repos, toc_entries, pdfs,
                   abs_pages, assumed_toc_pages, actual_toc_pages, links, row,
                   repo_i, readmevars, output, toc_iters, printed,
                   heading_page, fetched, last_resp>>

\* lines 247-260 and 369-384
RepoStart ==
    /\ pc = "repo"
    /\ ops = <<>>
    /\ repo_i <= Len(sorted_repos)
    /\ pc' = "fetch"
    /\ LET repo == sorted_repos[repo_i]
       IN  IF pass = "dry"
           THEN /\ rel_pages' = Append(rel_pages, page_no(content_pdf))
                /\ ops' = SectionOps(repo, Len(rel_pages) + 1)
                /\ UNCHANGED <<link_target, bound, idx, out_sections>>
           ELSE /\ link_target' =
                      set_link(link_target, links[idx + 1], page_no(final_pdf))
                /\ bound' = [bound EXCEPT ![links[idx + 1]] = @ + 1]
                /\ idx' = idx + 1
                /\ ops' = SectionOps(repo, idx + 1)
                /\ out_sections' = Append(out_sections,
                      [title |-> repo.name, readme |-> FALSE])
                /\ UNCHANGED rel_pages
    /\ UNCHANGED <<inputs, faults, pass, sorted_repos, toc_entries, pdfs,
                   abs_pages, assumed_toc_pages, actual_toc_pages, links, row,
                   repo_i, readmevars, output, toc_iters, printed,
                   heading_page, fetched, last_resp>>

\* lines 261-268 and 385-392: an exception of requests.get is caught nowhere
Fetch ==
    /\ pc = "fetch"
    /\ ops = <<>>
    /\ \E fault \in FaultChoices :
         LET resp == requests_get(remote[sorted_repos[repo_i].name], fault)
             readme == fetch_readme(resp)
         IN  /\ faults' = IF fault = "none" THEN faults ELSE faults - 1
             /\ last_resp' = resp
             /\ IF resp.raised
                THEN /\ pc' = "aborted"
                     /\ UNCHANGED <<ops, readmevars, fetched, out_sections>>
                ELSE /\ pc' = "lines"
                     /\ fetched' = [fetched EXCEPT ![pass] = Append(@, readme)]
                     /\ emitted' = <<>>
                     /\ math_text' = <<>>
                     /\ IF Truthy(readme)
                        THEN /\ ops' = <<Op("cell", 20), Op("ln", 20)>>
                             /\ lines' = split(readme.text, "\n")
                             /\ in_code_block' = FALSE
                             /\ out_sections' =
                                  IF pass = "final"
                                  THEN [out_sections EXCEPT
                                          ![Len(out_sections)].readme = TRUE]
                                  ELSE out_sections
                        ELSE UNCHANGED <<ops, lines, in_code_block, out_sections>>
    /\ UNCHANGED <<inputs, pass, sorted_repos, toc_entries, pdfs, tocvars,
                   linkvars, idx, row, repo_i, output, heading_page>>

\* lines 163-165: the snippets of a block that process_inline hands to
\* latex_to_unicode, in order
MathSnippets(block) ==
    IF block.kind \in {"ul", "ol", "paragraph"}
    THEN LET math == SelectSeq(block.runs, LAMBDA run : run.style = "math")
         IN  [k \in 1..Len(math) |-> math[k].text]
    ELSE <<>>

\* lines 269-270 and 393-394
ReadmeLine ==
    /\ pc = "lines"
    /\ ops = <<>>
    /\ lines # <<>>
    /\ LET r == process_readme_line(Head(lines), in_code_block)
           snippets == MathSnippets(r.block)
       IN  /\ in_code_block' = r.in_code_block
           /\ ops' = r.ops
           /\ emitted' = Append(emitted, [line |-> Head(lines), block |-> r.block])
           /\ \E parsed \in [1..Len(snippets) -> BOOLEAN] :
                math_text' = [k \in 1..Len(snippets) |->
                                latex_to_unicode(snippets[k], parsed[k])]
    /\ lines' = Tail(lines)
    /\ UNCHANGED <<inputs, faults, pc, pass, sorted_repos, toc_entries, pdfs,
                   tocvars, linkvars, idx, row, repo_i, output, out_sections,
                   heading_page, fetched, last_resp>>

\* lines 271 and 395
RepoEnd ==
    /\ pc = "lines"
    /\ ops = <<>>
    /\ lines = <<>>
    /\ ops' = <<Op("ln", 20)>>
    /\ repo_i' = repo_i + 1
    /\ pc' = "repo"
    /\ UNCHANGED <<inputs, faults, pass, sorted_repos, toc_entries, pdfs,
                   tocvars, linkvars, idx, row, readmevars, output,
                   out_sections, heading_page, fetched, last_resp>>

\* line 274
DryDone ==
    /\ pc = "repo"
    /\ ops = <<>>
    /\ repo_i > Len(sorted_repos)
    /\ pass = "dry"
    /\ assumed_toc_pages' = 1
    /\ pass' = "toc"
    /\ pc' = "toc_begin"
    /\ UNCHANGED <<inputs, faults, sorted_repos, toc_entries, pdfs, ops,
                   rel_pages, abs_pages, actual_toc_pages, linkvars, idx, row,
                   repo_i, readmevars, output, out_sections, toc_iters,
                   heading_page, fetched, last_resp>>

\* lines 276-277
AbsPages(rel, assumed) ==
    LET content_start == 1 + assumed
    IN  [k \in 1..Len(rel) |-> rel[k] + content_start - 1]

\* lines 286-292 and 316-322: three cells and ln(5)
TocRowOps == <<Op("cell", 10), Op("cell", 10), Op("cell", 10), Op("ln", 10)>>

\* lines 275-284
TocBegin ==
    /\ pc = "toc_begin"
    /\ abs_pages' = AbsPages(rel_pages, assumed_toc_pages)
    /\ toc_pdf' = add_page(PDF)
    /\ ops' = <<Op("cell", 20), Op("ln", 20)>>
    /\ row' = 1
    /\ toc_iters' = toc_iters + 1
    /\ pc' = "toc_rows"
    /\ UNCHANGED <<inputs, faults, pass, sorted_repos, toc_entries, content_pdf,
                   final_pdf, rel_pages, assumed_toc_pages, actual_toc_pages,
                   linkvars, idx, repo_i, readmevars, output, out_sections,
                   heading_page, fetched, last_resp>>

\* lines 285-292
TocRow ==
    /\ pc = "toc_rows"
    /\ ops = <<>>
    /\ row <= Len(toc_entries)
    /\ ops' = TocRowOps
    /\ row' = row + 1
    /\ UNCHANGED <<inputs, faults, pc, pass, sorted_repos, toc_entries, pdfs,
                   tocvars, linkvars, idx, repo_i, readmevars, output,
                   out_sections, heading_page, fetched, last_resp>>

\* the assumption is never updated
NextAssumedStale(assumed, actual) == assumed

\* line 297
NextAssumed(assumed, actual) == actual

\* lines 294-297
TocCheck ==
    /\ pc = "toc_rows"
    /\ ops = <<>>
    /\ row > Len(toc_entries)
    /\ actual_toc_pages' = page_no(toc_pdf)
    /\ IF page_no(toc_pdf) = assumed_toc_pages
       THEN pc' = "final_begin" /\ UNCHANGED assumed_toc_pages
       ELSE /\ assumed_toc_pages' = NextAssumed(assumed_toc_pages, page_no(toc_pdf))
            /\ pc' = "toc_begin"
    /\ UNCHANGED <<inputs, faults, pass, sorted_repos, toc_entries, pdfs, ops,
                   rel_pages, abs_pages, toc_iters, linkvars, idx, row, repo_i,
                   readmevars, output, out_sections, heading_page, fetched,
                   last_resp>>

\* lines 300-312: the title page, then the first TOC page
FinalBegin ==
    /\ pc = "final_begin"
    /\ final_pdf' = add_page(PDF)
    /\ ops' = <<Op("cell", 20), Op("add_page", 0), Op("cell", 20), Op("ln", 20)>>
    /\ links' = <<>>
    /\ row' = 1
    /\ pass' = "final"
    /\ pc' = "final_toc"
    /\ UNCHANGED <<inputs, faults, sorted_repos, toc_entries, content_pdf,
                   toc_pdf, tocvars, link_target, bound, printed, idx, repo_i,
                   readmevars, output, out_sections, heading_page, fetched,
                   last_resp>>

\* lines 313-322: add_link returns the next handle of the link table
FinalTocRow ==
    /\ pc = "final_toc"
    /\ ops = <<>>
    /\ row <= Len(toc_entries)
    /\ LET link == Len(link_target) + 1
       IN  /\ link_target' = Append(link_target, 0)
           /\ bound' = Append(bound, 0)
           /\ links' = Append(links, link)
    /\ printed' = Append(printed, abs_pages[row])
    /\ ops' = TocRowOps
    /\ row' = row + 1
    /\ UNCHANGED <<inputs, faults, pc, pass, sorted_repos, toc_entries, pdfs,
                   tocvars, idx, repo_i, readmevars, output, out_sections,
                   heading_page, fetched, last_resp>>

\* lines 325-326
FinalContent ==
    /\ pc = "final_toc"
    /\ ops = <<>>
    /\ row > Len(toc_entries)
    /\ ops' = <<Op("add_page", 0)>>
    /\ idx' = 0
    /\ repo_i' = 1
    /\ pc' = "calendar"
    /\ UNCHANGED <<inputs, faults, pass, sorted_repos, toc_entries, pdfs,
                   tocvars, linkvars, row, readmevars, output, out_sections,
                   heading_page, fetched, last_resp>>

\* line 397
Output ==
    /\ pc = "repo"
    /\ ops = <<>>
    /\ repo_i > Len(sorted_repos)
    /\ pass = "final"
    /\ output' = TRUE
    /\ pc' = "done"
    /\ UNCHANGED <<inputs, faults, pass, sorted_repos, toc_entries, pdfs, ops,
                   tocvars, linkvars, idx, row, repo_i, readmevars,
                   out_sections, heading_page, fetched, last_resp>>

\* One page writer call takes effect on the FPDF object being written.
Emit ==
    /\ ops # <<>>
    /\ LET o == Head(ops)
           p == Exec(CurPdf, o)
       IN  /\ content_pdf' = IF pass = "dry" THEN p ELSE content_pdf
           /\ toc_pdf' = IF pass = "toc" THEN p ELSE toc_pdf
           /\ final_pdf' = IF pass = "final" THEN p ELSE final_pdf
           /\ heading_page' =
                IF o.mark > 0
                THEN [heading_page EXCEPT ![pass] = Append(@, page_no(p))]
                ELSE heading_page
    /\ ops' = Tail(ops)
    /\ UNCHANGED <<inputs, faults, pc, pass, sorted_repos, toc_entries, tocvars,
                   linkvars, idx, row, repo_i, readmevars, output,
                   out_sections, fetched, last_resp>>

(***************************************************************************)
(* generate_html and generate_md: the section list, then one section per   *)
(* repository, each with its own fetch_readme call.                        *)
(***************************************************************************)
TextStart(fmt, sr, next_pc) ==
    /\ pc = "start"
    /\ format = fmt
    /\ sorted_repos' = sr
    /\ out_sections' = IF contrib
                       THEN <<[title |-> CalendarTitle, readme |-> FALSE]>>
                       ELSE <<>>
    /\ repo_i' = 1
    /\ pc' = next_pc
    /\ UNCHANGED <<inputs, faults, pass, toc_entries, pdfs, ops, tocvars,
                   linkvars, idx, row, readmevars, output, heading_page,
                   fetched, last_resp>>

TextRepo(at_pc) ==
    /\ pc = at_pc
    /\ repo_i <= Len(sorted_repos)
    /\ \E fault \in FaultChoices :
         LET resp == requests_get(remote[sorted_repos[repo_i].name], fault)
             readme == fetch_readme(resp)
         IN  /\ faults' = IF fault = "none" THEN faults ELSE faults - 1
             /\ last_resp' = resp
             /\ IF resp.raised
                THEN pc' = "aborted" /\ UNCHANGED <<out_sections, repo_i>>
                ELSE /\ out_sections' = Append(out_sections,
                           [title |-> sorted_repos[repo_i].name,
                            readme |-> Truthy(readme)])
                     /\ repo_i' = repo_i + 1
                     /\ UNCHANGED pc
    /\ UNCHANGED <<inputs, pass, sorted_repos, toc_entries, pdfs, ops, tocvars,
                   linkvars, idx, row, readmevars, output, heading_page, fetched>>

TextEnd(at_pc) ==
    /\ pc = at_pc
    /\ repo_i > Len(sorted_repos)
    /\ output' = TRUE
    /\ pc' = "done"
    /\ UNCHANGED <<inputs, faults, pass, sorted_repos, toc_entries, pdfs, ops,
                   tocvars, linkvars, idx, row, repo_i, readmevars,
                   out_sections, heading_page, fetched, last_resp>>

\* lines 399-419
GenerateHtml ==
    TextStart("html", sorted_repos_html(repos, prioritize, exclude), "html_repo")

\* lines 421-429
HtmlRepo == TextRepo("html_repo")

\* line 430
HtmlEnd == TextEnd("html_repo")

\* lines 432-443
GenerateMd ==
    TextStart("md", sorted_repos_md(repos, prioritize, exclude), "md_repo")

\* lines 445-453
MdRepo == TextRepo("md_repo")

\* the end of generate_md
MdEnd == TextEnd("md_repo")

Next ==
    \/ GeneratePdf
    \/ Calendar
    \/ RepoStart
    \/ Fetch
    \/ ReadmeLine
    \/ RepoEnd
    \/ DryDone
    \/ TocBegin
    \/ TocRow
    \/ TocCheck
    \/ FinalBegin
    \/ FinalTocRow
    \/ FinalContent
    \/ Output
    \/ Emit
    \/ GenerateHtml
    \/ HtmlRepo
    \/ HtmlEnd
    \/ GenerateMd
    \/ MdRepo
    \/ MdEnd

(***************************************************************************)
(* The runs checked.                                                       *)
(***************************************************************************)
Formats == {"pdf", "html", "md"}

\* how many requests of a run may fail
MaxFaults == 1

\* README texts
JoinLines(ls) ==
    Concat([k \in 1..Len(ls) |-> IF k = 1 THEN ls[k] ELSE <<"\n">> \o ls[k]])

LineFence == <<BackTick, BackTick, BackTick>>
LineFenceLang == <<" ", BackTick, BackTick, BackTick, "p", "y">>
LineItem == <<"-", " ", "x">>
LineHeading == <<"#", " ", "h">>
LineText == <<"x">>
LineSpan == <<BackTick, "a", " ", "$", "b", "$", " ", "c", BackTick>>

RepoA == Repo("A", 5, 1)
RepoB == Repo("B", 10, 2)
RepoC == Repo("C", 1, 1)

Names(rs) == {rs[k].name : k \in 1..Len(rs)}

\* Spec: up to three repositories, with and without the calendar, each
\* README one of a few texts.
MainRepos == {<<>>, <<RepoA>>, <<RepoA, RepoB>>, <<RepoA, RepoB, RepoC>>}

MainReadmes ==
    {None,
     Some(JoinLines(<<LineText>>)),
     Some(JoinLines(<<LineFence, LineItem, LineText>>))}

Init ==
    \E f \in Formats, rs \in MainRepos, cal \in BOOLEAN,
       prio \in {<<>>, <<"B">>}, excl \in {<<>>, <<"B">>} :
      \E rem \in [Names(rs) -> MainReadmes] :
        Start(f, rs, prio, excl, cal, rem, MaxFaults)

Spec == Init /\ [][Next]_vars

\* SpecOrder: every order of up to three repositories, with and without
\* equal star counts, against short prioritize and exclude lists (which may
\* name a repository twice, both name one, or name one that does not exist).
MaxListLen == 2

Permutations3 ==
    {<<>>} \cup {<<a>> : a \in {RepoA, RepoB, RepoC}}
      \cup {<<a, b>> : a \in {RepoA, RepoB, RepoC}, b \in {RepoA, RepoB, RepoC}}
      \cup {<<a, b, c>> : a \in {RepoA, RepoB, RepoC},
                          b \in {RepoA, RepoB, RepoC},
                          c \in {RepoA, RepoB, RepoC}}

Distinct(rs) == \A i, j \in 1..Len(rs) : i # j => rs[i].name # rs[j].name

\* B with as many stars as A
TieStars(rs) ==
    [k \in 1..Len(rs) |-> IF rs[k].name = "B"
                          THEN [rs[k] EXCEPT !.stargazers_count = 5]
                          ELSE rs[k]]

OrderRepos ==
    LET ps == {rs \in Permutations3 : Distinct(rs)}
    IN  ps \cup {TieStars(rs) : rs \in {qs \in ps : Len(qs) = 3}}

NameLists(n) ==
    UNION {[1..k -> {"A", "B", "C"}] : k \in 0..n}

ExcludeLists == {<<>>, <<"A">>, <<"B">>, <<"Z">>, <<"B", "C">>}

InitOrder ==
    \E f \in Formats, rs \in OrderRepos,
       prio \in NameLists(MaxListLen) \cup {<<"Z", "C">>}, excl \in ExcludeLists :
      Start(f, rs, prio, excl, FALSE,
            [n \in Names(rs) |-> IF n = "A" THEN Some(LineText) ELSE None], 0)

SpecOrder == InitOrder /\ [][Next]_vars

\* SpecToc: tables of contents of many rows.
MaxTocRepos == 10

NamePool == <<"A", "B", "C", "D", "E", "F", "G", "H", "I", "J", "K", "L", "M",
              "N", "O", "P">>

TocRepos(n) == [k \in 1..n |-> Repo(NamePool[k], k, 1)]

InitToc ==
    \E f \in Formats, n \in 0..MaxTocRepos, cal \in BOOLEAN :
      Start(f, TocRepos(n), <<>>, <<>>, cal,
            [m \in Names(TocRepos(n)) |->
               IF m = "B" THEN Some(LineText) ELSE None], 0)

SpecToc == InitToc /\ [][Next]_vars

\* SpecReadme: every README of up to MaxReadmeLines lines, each one of six
\* kinds, followed by a second repository's README.
MaxReadmeLines == 3

ReadmeLineKinds ==
    {LineFence, LineFenceLang, LineItem, LineHeading, LineText, LineSpan}

AllReadmes ==
    {Some(JoinLines(ls)) :
       ls \in UNION {[1..k -> ReadmeLineKinds] : k \in 1..MaxReadmeLines}}

InitReadme ==
    \E f \in Formats, rs \in {<<RepoA>>, <<RepoA, RepoB>>}, ra \in AllReadmes :
      Start(f, rs, <<>>, <<>>, FALSE,
            [n \in Names(rs) |->
               IF n = "A" THEN ra ELSE Some(JoinLines(<<LineItem, LineFence>>))],
            0)

SpecReadme == InitReadme /\ [][Next]_vars

\* SpecMath: a README of one paragraph holding one math span, the snippet
\* made of up to MaxSnippetPieces pieces: a command of the table (\pi), two
\* commands that are not in it (\in, \pmod), \frac, ^, _, braced groups and
\* plain characters.
MaxSnippetPieces == 2

SnippetPieces ==
    {<<"\\", "p", "i">>,
     <<"\\", "i", "n">>,
     <<"\\", "p", "m", "o", "d">>,
     FracHead,
     <<"^">>,
     <<"_">>,
     <<"{", "x", "}">>,
     <<"{", "x", "}", "{", "\\", "i", "n", "}">>,
     <<"x">>,
     <<"2">>}

Snippets ==
    {Concat(ps) :
       ps \in UNION {[1..k -> SnippetPieces] : k \in 1..MaxSnippetPieces}}

InitMath ==
    \E f \in Formats, tex \in Snippets :
      Start(f, <<RepoA>>, <<>>, <<>>, FALSE,
            [n \in Names(<<RepoA>>) |-> Some(<<"$">> \o tex \o <<"$">>)],
            0)

SpecMath == InitMath /\ [][Next]_vars

(***************************************************************************)
(* The claims.                                                             *)
(***************************************************************************)
PdfWritten == format = "pdf" /\ pc = "done"

\* both passes were given the same README for every section
SameReadmes == fetched.dry = fetched.final

Last(q) == q[Len(q)]

Odd(n) == n % 2 = 1

\* C1: in the PDF written, with the same READMEs in both passes, the page
\* number printed in each TOC row is the page of the final document on which
\* that section's heading was placed.
C1_PrintedPageIsHeadingPage ==
    (PdfWritten /\ SameReadmes) =>
        /\ Len(printed) = Len(heading_page.final)
        /\ \A k \in 1..Len(printed) : printed[k] = heading_page.final[k]

\* C2, as claimed: the reconciliation loop never runs more iterations than
\* the table of contents has rows.
C2_IterationsAtMostRows == toc_iters <= Len(toc_entries)

\* C2, amended: the loop ends, after at most N iterations when the TOC has
\* N >= 1 rows and after exactly one when it has none.  Inside the loop a
\* step is always possible, the assumed page count never shrinks, and the
\* loop is left with the assumed count equal to the measured one.
C2_LoopTerminates ==
    /\ toc_iters <= (IF Len(toc_entries) = 0 THEN 1 ELSE Len(toc_entries))
    /\ pc \in {"toc_begin", "toc_rows"} => ENABLED Next
    /\ pc \in {"toc_begin", "toc_rows"} =>
          /\ assumed_toc_pages >= 1
          /\ actual_toc_pages <= assumed_toc_pages
    /\ pc = "final_begin" =>
          /\ toc_iters >= 1
          /\ assumed_toc_pages = page_no(toc_pdf)
          /\ Len(toc_entries) = 0 => toc_iters = 1

\* a table of contents of three pages, settled in the second iteration
C2_Witness ==
    /\ pc = "final_begin"
    /\ toc_iters = 2
    /\ assumed_toc_pages = 3
    /\ Len(toc_entries) >= 7

\* C3: when the PDF is written there is one link handle per TOC row, in row
\* order, and each was bound exactly once, to the page on which its section's
\* heading was placed.
C3_LinksBoundToSectionStart ==
    PdfWritten =>
        /\ Len(links) = Len(toc_entries)
        /\ \A k \in 1..Len(links) :
              /\ links[k] = k
              /\ bound[links[k]] = 1
              /\ link_target[links[k]] = heading_page.final[k]

\* C4: no repository named in the exclude list has a TOC row or a section in
\* the output, also when the prioritize list names it too.
C4_ExcludedOmitted ==
    \A n \in Range(exclude) :
        /\ n \notin Range(toc_entries)
        /\ \A k \in 1..Len(out_sections) : out_sections[k].title # n

\* C5: the sections are the repositories the prioritize list names, in that
\* list's order, then the others that are not excluded, by descending star
\* count; A(5), B(10), C(1) with prioritize [C] and exclude [B] give [C, A];
\* the three formats compute the same order and write their sections in it.
Prioritized(r) == r.name \in Range(prioritize)

FirstPos(list, n) ==
    CHOOSE i \in 1..Len(list) : list[i] = n /\ \A j \in 1..(i - 1) : list[j] # n

InOrder(a, b) ==
    IF Prioritized(a)
    THEN Prioritized(b) =>
            FirstPos(prioritize, a.name) < FirstPos(prioritize, b.name)
    ELSE ~Prioritized(b) /\ a.stargazers_count >= b.stargazers_count

RepoTitles ==
    SelectSeq([k \in 1..Len(out_sections) |-> out_sections[k].title],
              LAMBDA t : t # CalendarTitle)

C5_SectionOrder ==
    pc # "start" =>
        /\ Range(sorted_repos) =
              {r \in Range(repos) : Prioritized(r) \/ r.name \notin Range(exclude)}
        /\ Cardinality(Range(sorted_repos)) = Len(sorted_repos)
        /\ \A i, j \in 1..Len(sorted_repos) :
              i < j => InOrder(sorted_repos[i], sorted_repos[j])
        /\ (repos = <<RepoA, RepoB, RepoC>> /\ prioritize = <<"C">>
              /\ exclude = <<"B">>) => sorted_repos = <<RepoC, RepoA>>
        /\ sorted_repos = sorted_repos_pdf(repos, prioritize, exclude)
        /\ sorted_repos = sorted_repos_html(repos, prioritize, exclude)
        /\ sorted_repos = sorted_repos_md(repos, prioritize, exclude)
        /\ Len(RepoTitles) <= Len(sorted_repos)
        /\ \A k \in 1..Len(RepoTitles) : RepoTitles[k] = sorted_repos[k].name
        /\ pc = "done" => Len(RepoTitles) = Len(sorted_repos)

\* the example of the claim, written as Markdown
C5_Witness ==
    /\ pc = "done"
    /\ format = "md"
    /\ repos = <<RepoA, RepoB, RepoC>>
    /\ prioritize = <<"C">>
    /\ exclude = <<"B">>
    /\ RepoTitles = <<"C", "A">>

\* C6: a line that is one single-backtick code span with a pair of dollar
\* signs inside gives one code run holding the whole span content.
IsCodeSpan(t) ==
    /\ Len(t) >= 3
    /\ t[1] = BackTick
    /\ t[Len(t)] = BackTick
    /\ \A i \in 2..(Len(t) - 1) : t[i] # BackTick

HasDollarPair(t) ==
    \E i, j \in 1..Len(t) : i + 1 < j /\ t[i] = "$" /\ t[j] = "$"

C6_CodeSpanWinsOverMath ==
    \A k \in 1..Len(emitted) :
        LET e == emitted[k]
        IN  (e.block.kind = "paragraph" /\ IsCodeSpan(e.line)
               /\ HasDollarPair(e.line)) =>
                e.block.runs = <<Run("code", SubSeq(e.line, 2, Len(e.line) - 1))>>

\* C7: a README fetch that fails, by its status or by the request itself,
\* counts as no README: the run goes on and the section has no README part.
FetchFailed == last_resp.raised \/ last_resp.status_code \notin {0, 200}

C7_ReadmeFailureIsSoft ==
    FetchFailed =>
        /\ pc # "aborted"
        /\ (pass # "dry" /\ out_sections # <<>>) => ~Last(out_sections).readme

\* C8: in a pass the page number starts at 1; a block append or a section
\* start never lowers it, and raises it, by one, only when the cell appended
\* would end past the page break trigger, and then the cursor is back at the
\* top margin (below the line just written, for a multi_cell line).
PassStarts == pc \in {"start", "toc_begin", "final_begin"}

ExplicitNewPage == ops # <<>> /\ Head(ops).op = "add_page"

PageKept(old, new) ==
    /\ new.page >= old.page
    /\ new.page > old.page =>
          /\ new.page = old.page + 1
          /\ ops # <<>>
          /\ Head(ops).op \in {"cell", "multi_cell"}
          /\ old.y + Head(ops).h > PageBreakTrigger
          /\ new.y = TopMargin + (IF Head(ops).op = "multi_cell"
                                  THEN Head(ops).h ELSE 0)

C8_PageNumberMonotone ==
    [][/\ (pc = "start" /\ format = "pdf") => page_no(content_pdf') = 1
       /\ pc = "toc_begin" => page_no(toc_pdf') = 1
       /\ pc = "final_begin" => page_no(final_pdf') = 1
       /\ (~PassStarts /\ ~ExplicitNewPage) =>
             /\ PageKept(content_pdf, content_pdf')
             /\ PageKept(toc_pdf, toc_pdf')
             /\ PageKept(final_pdf, final_pdf')]_vars

\* the dry-run pass has just started its second page
C8_Witness ==
    /\ pass = "dry"
    /\ page_no(content_pdf) = 2
    /\ content_pdf.y = TopMargin

\* C9: in the PDF written, with the same READMEs in both passes, every
\* section's heading is on the page rel_pages gives for it plus 1 + T, with
\* T the settled TOC page count.
C9_StartIsRelativePlusOffset ==
    (PdfWritten /\ SameReadmes) =>
        /\ Len(heading_page.final) = Len(rel_pages)
        /\ \A k \in 1..Len(rel_pages) :
              heading_page.final[k] = rel_pages[k] + 1 + assumed_toc_pages

\* C10: in the README being processed, a fence line gives no block; any
\* other line gives a verbatim code line exactly when an odd number of fence
\* lines precede it, whatever it looks like, and a list item, heading or
\* paragraph otherwise; the flag is the parity of the fence lines seen in
\* this README.
FencesBefore(k) ==
    Cardinality({j \in 1..(k - 1) : IsFenceLine(emitted[j].line)})

C10_FenceParity ==
    /\ \A k \in 1..Len(emitted) :
          LET e == emitted[k]
          IN  IF IsFenceLine(e.line) THEN e.block = NoBlock
              ELSE IF Odd(FencesBefore(k))
              THEN e.block = [kind |-> "code", text |-> e.line]
              ELSE e.block.kind \in {"ul", "ol", "heading", "paragraph"}
    /\ pc = "lines" => (in_code_block <=> Odd(FencesBefore(Len(emitted) + 1)))

\* the second README starts outside a fence although the first one ended
\* inside: its list item is a list item, and the same line after a fence is
\* a code line
C10_Witness ==
    /\ pc = "lines"
    /\ repo_i = 2
    /\ Len(fetched.dry) = 2
    /\ fetched.dry[1] = Some(JoinLines(<<LineItem, LineFence>>))
    /\ Len(emitted) = 3
    /\ emitted[1].block.kind = "ul"
    /\ IsFenceLine(emitted[2].line)
    /\ emitted[3].line = emitted[1].line
    /\ emitted[3].block.kind = "code"
    /\ in_code_block

\* C11: in the substitutions latex_to_unicode falls back to, every backslash
\* command of the snippet whose name is neither an entry of the symbol table
\* nor frac is in the result with the characters it has in the snippet.
CommandLen(tex, p) ==
    IF tex[p] = "\\" THEN LeadCount(SubSeq(tex, p + 1, Len(tex)), Letters) ELSE 0

Command(tex, p) == SubSeq(tex, p, p + CommandLen(tex, p))

InTable(command) == \E k \in 1..Len(symbols) : symbols[k][1] = command

UnknownCommands(tex) ==
    {Command(tex, p) : p \in {q \in 1..Len(tex) :
                                /\ CommandLen(tex, q) >= 1
                                /\ ~InTable(Command(tex, q))
                                /\ Command(tex, q) # FracHead}}

Contains(text, part) ==
    \E p \in 1..(Len(text) - Len(part) + 1) :
        SubSeq(text, p, p + Len(part) - 1) = part

C11_UnknownCommandUnchanged ==
    \A k \in 1..Len(math_text) :
        ~math_text[k].parsed =>
            \A command \in UnknownCommands(math_text[k].tex) :
                Contains(math_text[k].text, command)
====
